---- MODULE Spec2Model ----
(***************************************************************************)
(* Model of pkg/idle/wayland_idle.c: the process-wide idle-notify session  *)
(* (display, registry, idle_notifier, seat, notification), its five public *)
(* operations, the registry and notification listeners, and the Wayland    *)
(* client library as it is used by them (handles, event queue, socket).    *)
(***************************************************************************)
EXTENDS Integers, Sequences, FiniteSets, TLC

\* ------------------------------------------------------------------ bounds
MaxObjs    == 6   \* library objects (handles) allocated in one behaviour
MaxEvents  == 3   \* idled/resumed events the compositor sends
MaxRetries == 2   \* prepare_read retries followed inside one dispatch

\* ---------------------------------------------------------------- constants
NULL       == 0            \* the null pointer of the five globals
\* The largest timeout_ms.  uint32_t goes up to 4294967295, beyond TLC's
\* integers; the value is only passed on, never computed with, so the largest
\* TLC integer stands for it.
UINT32_MAX == 2147483647

Timeouts   == {0, 1500, UINT32_MAX}

VARIABLES
    display, registry, idle_notifier, seat, notification,  \* the C globals
    objs,      \* library objects in creation order: handle h is objs[h]
    released,  \* handles passed to a destroy/disconnect call, in call order
    wire,      \* events sent by the compositor, not yet read from a socket
    queue,     \* events read from a socket, not yet dispatched to listeners
    sent,      \* every event the compositor has sent (history)
    fired,     \* upstream callbacks (goIdleCallback/goResumeCallback), in order
    lastOp,    \* the step taken last: a public operation, or "send"
    ret,       \* the operation's return value
    calls,     \* the library calls the operation made, in order
    advert,    \* what the environment answered during the latest init
    lastMs,    \* the argument of the step taken last when that step is a
               \* register_timeout, 0 after any other step
    phase      \* "start" before the first init; "closed" since the latest
               \* cleanup while no init has returned 0; "ready" since an init
               \* returned 0; "failed" when only failed inits have been made

vars == <<display, registry, idle_notifier, seat, notification, objs, released,
          wire, queue, sent, fired, lastOp, ret, calls, advert, lastMs,
          phase>>

\* The whole program state as one record, so that each C function is an
\* operator from record to record.
Cur ==
    [display |-> display, registry |-> registry, idle_notifier |-> idle_notifier,
     seat |-> seat, notification |-> notification, objs |-> objs,
     released |-> released, wire |-> wire, queue |-> queue, sent |-> sent,
     fired |-> fired, calls |-> <<>>, ret |-> 0]

Session(s) ==
    [display |-> s.display, registry |-> s.registry,
     idle_notifier |-> s.idle_notifier, seat |-> s.seat,
     notification |-> s.notification]

\* ----------------------------------------------------- the client library
\* A handle is usable iff it was created, not destroyed, and its display is
\* still connected.
Created(s, h) == h \in 1..Len(s.objs)
Valid(s, h) ==
    /\ Created(s, h)
    /\ s.objs[h].alive
    /\ s.objs[s.objs[h].disp].alive

DisplayOf(s, h) == IF Created(s, h) THEN s.objs[h].disp ELSE NULL

\* Record one library call f on handle h with argument a and result r
\* (a handle or NULL for a constructor, 0 or -1 for a status).  v tells
\* whether h was a usable handle when the call was made; wl_display_connect
\* takes no handle.
Call(s, f, h, a, r) ==
    [s EXCEPT !.calls = Append(@, [f |-> f, h |-> h, a |-> a, r |-> r,
                                   v |-> f = "connect" \/ Valid(s, h)])]

\* Allocate a new object of the given kind on display d; d = NULL makes a
\* display, which is its own display.
NewObj(s, kind, d) ==
    LET id == Len(s.objs) + 1 IN
    [s EXCEPT !.objs = Append(@, [kind |-> kind,
                                  disp |-> IF d = NULL THEN id ELSE d,
                                  alive |-> TRUE])]
LastObj(s) == Len(s.objs)

\* A destroy/disconnect of handle h: it is recorded even when h is already gone.
Release(s, h) ==
    [s EXCEPT !.released = Append(@, h),
              !.objs = IF Created(s, h) THEN [@ EXCEPT ![h].alive = FALSE] ELSE @]

OnDisplay(s, d, evs) == SelectSeq(evs, LAMBDA e : DisplayOf(s, e.n) = d)
NotOnDisplay(s, d, evs) == SelectSeq(evs, LAMBDA e : DisplayOf(s, e.n) # d)

\* ------------------------------------------------ notification listener
\* An idled handler that logs and returns without calling upstream.
HandleIdleSilent(s, n) == s

\* handle_idle: one goIdleCallback() per idled event.
handle_idle(s, n) == [s EXCEPT !.fired = Append(@, [n |-> n, cb |-> "on_idle"])]

\* A resumed handler that calls the idle callback.
HandleResumeCallsIdle(s, n) == [s EXCEPT !.fired = Append(@, [n |-> n, cb |-> "on_idle"])]

\* handle_resume: one goResumeCallback() per resumed event.
handle_resume(s, n) == [s EXCEPT !.fired = Append(@, [n |-> n, cb |-> "on_resume"])]

\* idle_notification_listener: .idled = handle_idle, .resumed = handle_resume
idle_notification_listener(s, e) ==
    IF e.t = "idled" THEN handle_idle(s, e.n) ELSE handle_resume(s, e.n)

\* The library hands queued events to the listener one by one, oldest first.
RECURSIVE Deliver(_, _)
Deliver(s, evs) ==
    IF evs = <<>> THEN s
    ELSE Deliver(idle_notification_listener(s, Head(evs)), Tail(evs))

\* Dispatching d's queue: every event queued for d goes to the listener and
\* the queue of d is left empty.
DispatchQueued(s, d) ==
    Deliver([s EXCEPT !.queue = NotOnDisplay(s, d, @)], OnDisplay(s, d, s.queue))

\* Reading d's socket: the events on it move to the end of the queue.
ReadSocket(s, d) ==
    [s EXCEPT !.queue = @ \o OnDisplay(s, d, s.wire),
              !.wire = NotOnDisplay(s, d, @)]

\* wl_display_dispatch_pending(d): on success d's queue is dispatched; on
\* failure nothing is.
wl_display_dispatch_pending(s, d, ok) ==
    LET c == Call(s, "dispatch_pending", d, 0, IF ok THEN 0 ELSE -1) IN
    IF ok THEN DispatchQueued(c, d) ELSE c

\* wl_display_prepare_read(d): 0 iff no event is queued for d.
PrepareReadResult(s, d) == IF OnDisplay(s, d, s.queue) = <<>> THEN 0 ELSE -1
wl_display_prepare_read(s, d) == Call(s, "prepare_read", d, 0, PrepareReadResult(s, d))

\* wl_display_read_events(d): on success d's socket is read.
wl_display_read_events(s, d, ok) ==
    LET c == Call(s, "read_events", d, 0, IF ok THEN 0 ELSE -1) IN
    IF ok THEN ReadSocket(c, d) ELSE c

wl_display_cancel_read(s, d) == Call(s, "cancel_read", d, 0, 0)

\* wl_display_roundtrip(d): blocks until the compositor has answered; all
\* events sent before are read and dispatched.  On a display that is gone
\* (or NULL) nothing is read.
wl_display_roundtrip(s, d) ==
    LET c == Call(s, "roundtrip", d, 0, 0) IN
    IF Valid(s, d) THEN DispatchQueued(ReadSocket(c, d), d) ELSE c

\* wl_display_connect(NULL): a new display, or NULL.
wl_display_connect(s, ok) ==
    IF ok
    THEN LET n == NewObj(s, "display", NULL) IN
         [Call(n, "connect", NULL, 0, LastObj(n)) EXCEPT !.display = LastObj(n)]
    ELSE [Call(s, "connect", NULL, 0, NULL) EXCEPT !.display = NULL]

\* wl_display_disconnect(d): closes the connection; what was in flight on it
\* is lost.
wl_display_disconnect(s, d) ==
    LET c == Release(Call(s, "disconnect", d, 0, 0), d) IN
    [c EXCEPT !.wire = NotOnDisplay(c, d, @), !.queue = NotOnDisplay(c, d, @)]

\* wl_display_get_registry(d): a new registry on d, or NULL.
wl_display_get_registry(s, d, ok) ==
    IF ok
    THEN LET n == NewObj(s, "registry", d) IN
         [Call(n, "get_registry", d, 0, LastObj(n)) EXCEPT !.registry = LastObj(n)]
    ELSE [Call(s, "get_registry", d, 0, NULL) EXCEPT !.registry = NULL]

\* wl_registry_bind(reg, name, interface, version): a new proxy of that
\* interface on reg's display.
wl_registry_bind(s, reg, kind, version) ==
    LET n == NewObj(s, kind, DisplayOf(s, reg)) IN
    Call(n, "bind", reg, version, LastObj(n))

\* A proxy destructor (ext_idle_notification_v1_destroy,
\* ext_idle_notifier_v1_destroy, wl_registry_destroy).
Destroy(s, h) == Release(Call(s, "destroy", h, 0, 0), h)

\* ------------------------------------------------------ registry listener
\* registry_handle_global
registry_handle_global(s, reg, interface) ==
    IF interface = "ext_idle_notifier_v1"
    THEN LET b == wl_registry_bind(s, reg, "ext_idle_notifier_v1", 1) IN
         [b EXCEPT !.idle_notifier = LastObj(b)]
    ELSE IF interface = "wl_seat" /\ s.seat = NULL
    THEN LET b == wl_registry_bind(s, reg, "wl_seat", 1) IN
         [b EXCEPT !.seat = LastObj(b)]
    ELSE s

\* The first roundtrip after wl_registry_add_listener delivers one global
\* event per advertised global, in the compositor's order.
RECURSIVE Advertise(_, _, _)
Advertise(s, reg, globals) ==
    IF globals = <<>> THEN s
    ELSE Advertise(registry_handle_global(s, reg, Head(globals)), reg, Tail(globals))

\* ------------------------------------------------------------ API functions
\* wayland_cgo_init
wayland_cgo_init(s, connOk, regOk, globals) ==
    LET c == wl_display_connect(s, connOk) IN
    IF c.display = NULL THEN [c EXCEPT !.ret = -1]
    ELSE
    LET g == wl_display_get_registry(c, c.display, regOk) IN
    IF g.registry = NULL
    THEN [wl_display_disconnect(g, g.display) EXCEPT !.ret = -2]
    ELSE
    LET l  == Call(g, "add_listener", g.registry, 0, 0)
        r1 == Advertise(wl_display_roundtrip(l, l.display), l.registry, globals)
        r2 == wl_display_roundtrip(r1, r1.display)
    IN
    IF r2.idle_notifier = NULL
    THEN [wl_display_disconnect(r2, r2.display) EXCEPT !.ret = -3]
    ELSE IF r2.seat = NULL
    THEN [wl_display_disconnect(r2, r2.display) EXCEPT !.ret = -4]
    ELSE [r2 EXCEPT !.ret = 0]

\* ext_idle_notifier_v1_get_idle_notification(notifier, timeout, seat): a new
\* notification on the notifier's display, or NULL.  The call takes two
\* handles, notifier and the global seat; both have to be usable.
get_idle_notification(s, notifier, timeout_ms, ok) ==
    IF ok
    THEN LET n == NewObj(s, "notification", DisplayOf(s, notifier)) IN
         [Call(n, "get_idle_notification", notifier, timeout_ms, LastObj(n))
            EXCEPT !.notification = LastObj(n),
                   !.calls[Len(n.calls) + 1].v = @ /\ Valid(s, s.seat)]
    ELSE [Call(s, "get_idle_notification", notifier, timeout_ms, NULL)
            EXCEPT !.notification = NULL,
                   !.calls[Len(s.calls) + 1].v = @ /\ Valid(s, s.seat)]

\* A register_timeout that refuses a zero timeout.
RegisterTimeoutRejectsZero(s, timeout_ms, ok, early) ==
    IF s.idle_notifier = NULL \/ s.seat = NULL \/ timeout_ms = 0
    THEN [s EXCEPT !.ret = -1]
    ELSE
    LET n == get_idle_notification(s, s.idle_notifier, timeout_ms, ok) IN
    IF n.notification = NULL THEN [n EXCEPT !.ret = -2]
    ELSE
    LET l == Call(n, "add_listener", n.notification, 0, 0)
        e == IF early /\ Valid(l, l.notification)
             THEN [l EXCEPT !.wire = Append(@, [n |-> l.notification, t |-> "idled"]),
                            !.sent = Append(@, [n |-> l.notification, t |-> "idled"])]
             ELSE l
    IN [wl_display_roundtrip(e, e.display) EXCEPT !.ret = 0]

\* wayland_cgo_register_timeout.  early: the compositor sends idled for the
\* new object before it answers the roundtrip.
wayland_cgo_register_timeout(s, timeout_ms, ok, early) ==
    IF s.idle_notifier = NULL \/ s.seat = NULL THEN [s EXCEPT !.ret = -1]
    ELSE
    LET n == get_idle_notification(s, s.idle_notifier, timeout_ms, ok) IN
    IF n.notification = NULL THEN [n EXCEPT !.ret = -2]
    ELSE
    LET l == Call(n, "add_listener", n.notification, 0, 0)
        e == IF early /\ Valid(l, l.notification)
             THEN [l EXCEPT !.wire = Append(@, [n |-> l.notification, t |-> "idled"]),
                            !.sent = Append(@, [n |-> l.notification, t |-> "idled"])]
             ELSE l
    IN [wl_display_roundtrip(e, e.display) EXCEPT !.ret = 0]

\* A retry loop that calls prepare_read again without dispatching what is
\* queued.
RECURSIVE PrepareLoopNoDispatch(_, _, _, _)
PrepareLoopNoDispatch(s, d, pendOk, fuel) ==
    LET p == wl_display_prepare_read(s, d) IN
    IF PrepareReadResult(s, d) = 0 THEN [p EXCEPT !.ret = 0]
    ELSE IF fuel = 0 THEN [p EXCEPT !.ret = -9]
    ELSE PrepareLoopNoDispatch(p, d, pendOk, fuel - 1)

\* The while loop of wayland_cgo_dispatch: ret 0 when prepare_read succeeded,
\* -2 when dispatch_pending failed.  pendOk is the outcome of the
\* dispatch_pending calls made in the loop.
RECURSIVE PrepareLoop(_, _, _, _)
PrepareLoop(s, d, pendOk, fuel) ==
    LET p == wl_display_prepare_read(s, d) IN
    IF PrepareReadResult(s, d) = 0 THEN [p EXCEPT !.ret = 0]
    ELSE LET q == wl_display_dispatch_pending(p, d, pendOk) IN
         IF ~pendOk THEN [q EXCEPT !.ret = -2]
         ELSE IF fuel = 0 THEN [q EXCEPT !.ret = -9]
         ELSE PrepareLoop(q, d, pendOk, fuel - 1)

DispatchCodes == {-4, -3, -2, 0}

\* A dispatch that returns -3 without cancel_read.
DispatchWithoutCancel(s, pend1, read, pend2, ub) ==
    IF s.display = NULL THEN [s EXCEPT !.ret = -1]
    ELSE IF ~Valid(s, s.display)
    THEN [Call(s, "prepare_read", s.display, 0, ub) EXCEPT !.ret = ub]
    ELSE
    LET l == PrepareLoop(s, s.display, pend1, MaxRetries) IN
    IF l.ret # 0 THEN l
    ELSE
    LET r == wl_display_read_events(l, l.display, read) IN
    IF ~read THEN [r EXCEPT !.ret = -3]
    ELSE
    LET q == wl_display_dispatch_pending(r, r.display, pend2) IN
    IF ~pend2 THEN [q EXCEPT !.ret = -4] ELSE [q EXCEPT !.ret = 0]

\* wayland_cgo_dispatch.  pend1, read, pend2: outcomes of the library calls;
\* ub: what comes back when display points to a disconnected display.
wayland_cgo_dispatch(s, pend1, read, pend2, ub) ==
    IF s.display = NULL THEN [s EXCEPT !.ret = -1]
    ELSE IF ~Valid(s, s.display)
    THEN [Call(s, "prepare_read", s.display, 0, ub) EXCEPT !.ret = ub]
    ELSE
    LET l == PrepareLoop(s, s.display, pend1, MaxRetries) IN
    IF l.ret # 0 THEN l
    ELSE
    LET r == wl_display_read_events(l, l.display, read) IN
    IF ~read THEN [wl_display_cancel_read(r, r.display) EXCEPT !.ret = -3]
    ELSE
    LET q == wl_display_dispatch_pending(r, r.display, pend2) IN
    IF ~pend2 THEN [q EXCEPT !.ret = -4] ELSE [q EXCEPT !.ret = 0]

\* wl_display_get_fd(d): the socket of a connected display.
FdOf(d) == d

\* wayland_cgo_get_fd.  ub: what comes back when display points to a
\* disconnected display.
wayland_cgo_get_fd(s, ub) ==
    IF s.display = NULL THEN [s EXCEPT !.ret = -1]
    ELSE IF ~Valid(s, s.display)
    THEN [Call(s, "get_fd", s.display, 0, ub) EXCEPT !.ret = ub]
    ELSE [Call(s, "get_fd", s.display, 0, FdOf(s.display)) EXCEPT !.ret = FdOf(s.display)]

\* A display block that does nothing: the connection stays open and tracked.
CleanupDisplaySkipped(s) == s

\* A display block that disconnects without resetting the pointer.
CleanupDisplayKeepsPointer(s) ==
    IF s.display # NULL THEN wl_display_disconnect(s, s.display) ELSE s

\* wayland_cgo_cleanup, one guarded block after the other
cleanup_notification(s) ==
    IF s.notification # NULL
    THEN [Destroy(s, s.notification) EXCEPT !.notification = NULL] ELSE s
cleanup_idle_notifier(s) ==
    IF s.idle_notifier # NULL
    THEN [Destroy(s, s.idle_notifier) EXCEPT !.idle_notifier = NULL] ELSE s
cleanup_registry(s) ==
    IF s.registry # NULL
    THEN [Destroy(s, s.registry) EXCEPT !.registry = NULL] ELSE s
cleanup_display(s) ==
    IF s.display # NULL
    THEN [wl_display_disconnect(s, s.display) EXCEPT !.display = NULL] ELSE s
wayland_cgo_cleanup(s) ==
    cleanup_display(cleanup_registry(cleanup_idle_notifier(cleanup_notification(s))))

\* ------------------------------------------------------------ the compositor
\* For one notification object the compositor alternates idled, resumed,
\* idled, ... starting with idled.
EventsOf(n, evs) == SelectSeq(evs, LAMBDA e : e.n = n)
NextEvent(n) ==
    [n |-> n, t |-> IF Len(EventsOf(n, sent)) % 2 = 0 THEN "idled" ELSE "resumed"]

\* ------------------------------------------------------------- the machine
\* What a compositor may advertise on a new registry, in its order.
Adverts ==
    { <<>>,
      <<"wl_seat">>,
      <<"ext_idle_notifier_v1">>,
      <<"wl_seat", "wl_output", "ext_idle_notifier_v1">> }

\* An operation returned in state t; runs that allocate more than MaxObjs
\* objects are not followed.
Commit(t, op) ==
    /\ display' = t.display
    /\ registry' = t.registry
    /\ idle_notifier' = t.idle_notifier
    /\ seat' = t.seat
    /\ notification' = t.notification
    /\ objs' = t.objs
    /\ released' = t.released
    /\ wire' = t.wire
    /\ queue' = t.queue
    /\ sent' = t.sent
    /\ fired' = t.fired
    /\ calls' = t.calls
    /\ Len(t.objs) <= MaxObjs
    /\ ret' = t.ret
    /\ lastOp' = op

Init ==
    /\ display = NULL
    /\ registry = NULL
    /\ idle_notifier = NULL
    /\ seat = NULL
    /\ notification = NULL
    /\ objs = <<>>
    /\ released = <<>>
    /\ wire = <<>>
    /\ queue = <<>>
    /\ sent = <<>>
    /\ fired = <<>>
    /\ lastOp = "none"
    /\ ret = 0
    /\ calls = <<>>
    /\ advert = [conn |-> FALSE, reg |-> FALSE, globals |-> <<>>]
    /\ lastMs = 0
    /\ phase = "start"

PhaseAfterInit(r) ==
    IF r = 0 THEN "ready" ELSE IF phase = "start" THEN "failed" ELSE phase

DoInit ==
    /\ \E connOk \in BOOLEAN, regOk \in BOOLEAN, globals \in Adverts :
         /\ ~connOk => ~regOk
         /\ ~regOk => globals = <<>>
         /\ Commit(wayland_cgo_init(Cur, connOk, regOk, globals), "init")
         /\ phase' = PhaseAfterInit(wayland_cgo_init(Cur, connOk, regOk, globals).ret)
         /\ advert' = [conn |-> connOk, reg |-> regOk, globals |-> globals]
    /\ lastMs' = 0

DoRegisterTimeout ==
    /\ \E ms \in Timeouts, ok \in BOOLEAN, early \in BOOLEAN :
         /\ early => Len(sent) < MaxEvents
         /\ (idle_notifier = NULL \/ seat = NULL) => (ok /\ ~early)
         /\ ~ok => ~early
         /\ Commit(wayland_cgo_register_timeout(Cur, ms, ok, early), "register_timeout")
         /\ lastMs' = ms
    /\ UNCHANGED <<advert, phase>>

DoDispatch ==
    /\ \E pend1 \in BOOLEAN, read \in BOOLEAN, pend2 \in BOOLEAN, ub \in DispatchCodes :
         \* inputs that are not consulted are fixed
         /\ Valid(Cur, display) => ub = 0
         /\ ~Valid(Cur, display) => (pend1 /\ read /\ pend2)
         /\ display = NULL => ub = 0
         /\ PrepareReadResult(Cur, display) = 0 => pend1
         /\ ~pend1 => (read /\ pend2)
         /\ ~read => pend2
         /\ Commit(wayland_cgo_dispatch(Cur, pend1, read, pend2, ub), "dispatch")
    /\ lastMs' = 0
    /\ UNCHANGED <<advert, phase>>

DoGetFd ==
    /\ \E ub \in {-1, FdOf(display)} :
         /\ (display = NULL \/ Valid(Cur, display)) => ub = -1
         /\ Commit(wayland_cgo_get_fd(Cur, ub), "fd")
    /\ lastMs' = 0
    /\ UNCHANGED <<advert, phase>>

DoCleanup ==
    /\ Commit(wayland_cgo_cleanup(Cur), "cleanup")
    /\ phase' = "closed"
    /\ lastMs' = 0
    /\ UNCHANGED advert

\* The compositor sends the next event of a live notification object.
CompositorSend ==
    /\ Len(sent) < MaxEvents
    /\ \E n \in 1..Len(objs) :
         /\ objs[n].kind = "notification"
         /\ Valid(Cur, n)
         /\ wire' = Append(wire, NextEvent(n))
         /\ sent' = Append(sent, NextEvent(n))
    /\ lastOp' = "send"
    /\ ret' = 0
    /\ calls' = <<>>
    /\ lastMs' = 0
    /\ UNCHANGED <<display, registry, idle_notifier, seat, notification, objs,
                   released, queue, fired, advert, phase>>

Next ==
    \/ DoInit
    \/ DoRegisterTimeout
    \/ DoDispatch
    \/ DoGetFd
    \/ DoCleanup
    \/ CompositorSend

Spec == Init /\ [][Next]_vars

\* ------------------------------------------------------- derived notions
Handles == 1..Len(objs)
SessionFields == {display, registry, idle_notifier, seat, notification}

\* Notification objects created by get_idle_notification and not destroyed.
LiveNotifications ==
    {h \in Handles : objs[h].kind = "notification" /\ objs[h].alive}

Count(q, x) == Cardinality({i \in 1..Len(q) : q[i] = x})
CountCb(q, cb) == Cardinality({i \in 1..Len(q) : q[i].cb = cb})
CountCbOf(q, n, cb) == Cardinality({i \in 1..Len(q) : q[i].n = n /\ q[i].cb = cb})

FailureCodes == {-1, -2, -3, -4}

\* ---------------------------------------------------------------- claims

\* C1: whenever init() returns a failure code, the session is back in
\* Uninitialized: display is NULL (so fd() and dispatch() return -1) and no
\* session field refers to a display that has been disconnected.
C1_InitFailureUninitialized ==
    (lastOp = "init" /\ ret \in FailureCodes) =>
        /\ display = NULL
        /\ \A h \in SessionFields : h = NULL \/ Valid(Cur, h)

\* C2: at most one notification object is live in any reachable state.
C2_AtMostOneNotification == Cardinality(LiveNotifications) <= 1

\* C3: a cleanup() that closes the display of a successful init() has released
\* every handle of that display exactly once, before the disconnect, in
\* reverse order of creation.  (A display that cleanup() disconnects for the
\* first time is the display of a successful init(): every failure path of
\* init() has disconnected its own.)
ClosedDisplay == calls[Len(calls)].h
C3_ReleasedOn(d) == SelectSeq(released, LAMBDA h : DisplayOf(Cur, h) = d)
C3_CleanupReleasesAllInReverse ==
    (/\ lastOp = "cleanup"
     /\ calls # <<>>
     /\ calls[Len(calls)].f = "disconnect"
     /\ Created(Cur, ClosedDisplay)
     /\ Count(released, ClosedDisplay) = 1) =>
        LET rs == C3_ReleasedOn(ClosedDisplay) IN
        /\ \A h \in Handles : objs[h].disp = ClosedDisplay => Count(rs, h) = 1
        /\ \A i, j \in 1..Len(rs) : i < j => rs[i] > rs[j]

\* C4: the return code of init() reflects the current connection attempt.
InSeq(x, q) == \E i \in 1..Len(q) : q[i] = x
ExpectedInitCode ==
    IF ~advert.conn THEN -1
    ELSE IF ~advert.reg THEN -2
    ELSE IF ~InSeq("ext_idle_notifier_v1", advert.globals) THEN -3
    ELSE IF ~InSeq("wl_seat", advert.globals) THEN -4
    ELSE 0
C4_InitCodeReflectsAttempt == lastOp = "init" => ret = ExpectedInitCode

\* C5 (as stated): at every point, the number of on_resume callbacks fired
\* is <= the number of on_idle callbacks fired <= the number of on_resume + 1.
C5_GlobalCounts ==
    /\ CountCb(fired, "on_resume") <= CountCb(fired, "on_idle")
    /\ CountCb(fired, "on_idle") <= CountCb(fired, "on_resume") + 1

\* C5 (amended): for each notification object, the number of on_resume
\* callbacks fired by its events is <= the number of on_idle callbacks fired
\* by its events <= the number of its on_resume callbacks + 1.
C5_PerObjectCounts ==
    \A n \in Handles :
        /\ CountCbOf(fired, n, "on_resume") <= CountCbOf(fired, n, "on_idle")
        /\ CountCbOf(fired, n, "on_idle") <= CountCbOf(fired, n, "on_resume") + 1

\* Two notification objects have each fired on_idle, one of them on_resume too.
C5_Witness ==
    \E n, m \in Handles :
        /\ n # m
        /\ CountCbOf(fired, n, "on_idle") = 1
        /\ CountCbOf(fired, n, "on_resume") = 1
        /\ CountCbOf(fired, m, "on_idle") = 1

\* C6: cleanup() is idempotent: a cleanup() that directly follows a cleanup()
\* changes nothing and makes no destroy or disconnect call.
C6_CleanupIdempotent ==
    [][(lastOp = "cleanup" /\ lastOp' = "cleanup") =>
          /\ UNCHANGED <<display, registry, idle_notifier, seat, notification>>
          /\ UNCHANGED <<objs, released, wire, queue, sent, fired>>
          /\ calls' = <<>>]_vars

\* A cleanup() that found nothing to release, after a session that had bound
\* a seat and released handles.
C6_Witness ==
    /\ lastOp = "cleanup"
    /\ calls = <<>>
    /\ phase = "closed"
    /\ seat # NULL
    /\ \E i \in 1..Len(released) : objs[released[i]].kind = "ext_idle_notifier_v1"

\* C7: before the first init() and after any cleanup(), until a new
\* successful init(), dispatch(), fd() and register_timeout(ms) return -1 and
\* make no library call.
C7_UninitializedOpsRefused ==
    (phase \in {"start", "closed"} /\ lastOp \in {"dispatch", "fd", "register_timeout"}) =>
        (ret = -1 /\ calls = <<>>)

\* C8: after cleanup() returns, display, registry, seat, notifier and
\* notification are all NULL.
C8_CleanupResetsAllFields ==
    lastOp = "cleanup" =>
        /\ display = NULL
        /\ registry = NULL
        /\ seat = NULL
        /\ idle_notifier = NULL
        /\ notification = NULL

\* C9: dispatch() on an initialized session returns -2 iff dispatch_pending
\* failed while retrying prepare_read; otherwise it calls read_events exactly
\* once and, iff that fails, calls cancel_read and returns -3; otherwise it
\* calls dispatch_pending once more and returns -4 iff that fails; otherwise
\* it returns 0.  read_events is only called right after a successful
\* prepare_read.
CallsOf(f) == {i \in 1..Len(calls) : calls[i].f = f}
FailedLoopPending ==
    {i \in CallsOf("dispatch_pending") :
        /\ calls[i].r = -1
        /\ i > 1
        /\ calls[i-1].f = "prepare_read"
        /\ calls[i-1].r = -1}
FinalPending ==
    {i \in CallsOf("dispatch_pending") : i > 1 /\ calls[i-1].f = "read_events"}
C9_DispatchOutcome ==
    (lastOp = "dispatch" /\ Valid(Cur, display)) =>
        /\ ret \in {-2, -3, -4, 0}
        /\ (ret = -2) <=> (FailedLoopPending # {})
        /\ (ret = -2) => (CallsOf("read_events") = {})
        /\ (ret # -2) => (Cardinality(CallsOf("read_events")) = 1)
        /\ \A i \in CallsOf("read_events") :
              /\ i > 1
              /\ calls[i-1].f = "prepare_read"
              /\ calls[i-1].r = 0
              /\ (calls[i].r = -1) <=> (ret = -3)
              /\ (calls[i].r = -1) <=> (i < Len(calls) /\ calls[i+1].f = "cancel_read")
        /\ (ret = -3) <=> (CallsOf("cancel_read") # {})
        /\ (ret \in {-2, -3}) => (FinalPending = {})
        /\ (ret \in {-4, 0}) =>
              /\ FinalPending = {Len(calls)}
              /\ (calls[Len(calls)].r = -1) <=> (ret = -4)

\* A dispatch() that found events queued, dispatched them, read the socket
\* and returned 0 after firing callbacks.
C9_Witness ==
    /\ lastOp = "dispatch"
    /\ Valid(Cur, display)
    /\ ret = 0
    /\ \E i \in CallsOf("prepare_read") : calls[i].r = -1
    /\ fired # <<>>

\* C10: on every connected display, the callbacks fired are, in order, one
\* on_idle per idled event and one on_resume per resumed event that has been
\* dispatched; the events not yet dispatched follow in wire order; and after
\* a dispatch() that returned 0 no event of its display is left over.
Callback(e) == [n |-> e.n, cb |-> IF e.t = "idled" THEN "on_idle" ELSE "on_resume"]
RECURSIVE Callbacks(_)
Callbacks(evs) ==
    IF evs = <<>> THEN <<>> ELSE <<Callback(Head(evs))>> \o Callbacks(Tail(evs))
ConnectedDisplays == {d \in Handles : objs[d].kind = "display" /\ objs[d].alive}
C10_CallbacksInWireOrder ==
    \A d \in ConnectedDisplays :
        /\ OnDisplay(Cur, d, fired)
              \o Callbacks(OnDisplay(Cur, d, queue) \o OnDisplay(Cur, d, wire))
           = Callbacks(OnDisplay(Cur, d, sent))
        /\ (lastOp = "dispatch" /\ ret = 0 /\ d = display) =>
              OnDisplay(Cur, d, fired) = Callbacks(OnDisplay(Cur, d, sent))

\* idled, resumed, idled of one notification object have all been called
\* back, the last of them by a dispatch().
C10_Witness ==
    /\ lastOp = "dispatch"
    /\ ret = 0
    /\ Len(calls) = 3
    /\ \E n \in Handles :
          EventsOf(n, fired) = << [n |-> n, cb |-> "on_idle"],
                                  [n |-> n, cb |-> "on_resume"],
                                  [n |-> n, cb |-> "on_idle"] >>

\* C11 (as stated): no upstream callback fires before a register_timeout call
\* has returned 0, the roundtrip inside register_timeout included: when
\* register_timeout has just returned 0, no callback of the notification it
\* created has fired yet.
C11_NoCallbackBeforeReturn ==
    (lastOp = "register_timeout" /\ ret = 0) =>
        \A i \in 1..Len(fired) : fired[i].n # notification

\* C11 (amended): upstream callbacks fire only inside dispatch() or inside a
\* register_timeout call that returns 0 (during its roundtrip), only for
\* notification objects that a register_timeout call has created, and only
\* while an init() has returned 0 with no cleanup() since; so none fires
\* before the first register_timeout call has created its notification, and
\* none fires after cleanup().
NewCallbacks == {i \in 1..Len(fired') : i > Len(fired)}
C11_CallbacksOnlyWhileArmed ==
    [][fired' # fired =>
          /\ Len(fired') > Len(fired)
          /\ SubSeq(fired', 1, Len(fired)) = fired
          /\ lastOp' \in {"dispatch", "register_timeout"}
          /\ lastOp' = "register_timeout" => ret' = 0
          /\ phase = "ready"
          /\ phase' = "ready"
          /\ \A i \in NewCallbacks :
                /\ fired'[i].n \in 1..Len(objs')
                /\ objs'[fired'[i].n].kind = "notification"
                /\ objs'[fired'[i].n].disp = display']_vars

\* on_idle of the notification just created fired during the roundtrip of the
\* register_timeout call that created it.
C11_Witness ==
    /\ lastOp = "register_timeout"
    /\ ret = 0
    /\ \E i \in 1..Len(fired) : fired[i].n = notification

\* C12: register_timeout(ms) returns -1 iff idle_notifier or seat is null (the
\* call leaves both as they were) and then calls nothing; otherwise its first
\* library call is get_idle_notification on idle_notifier with ms passed
\* unchanged, and it returns -2 iff that call returned no object and 0
\* otherwise.  No other code is returned and ms decides nothing.
C12_RegisterTimeoutCodes ==
    lastOp = "register_timeout" =>
        /\ ret \in {-1, -2, 0}
        /\ ret = -1 <=> (idle_notifier = NULL \/ seat = NULL)
        /\ ret = -1 => calls = <<>>
        /\ ret # -1 =>
              /\ Len(calls) >= 1
              /\ calls[1].f = "get_idle_notification"
              /\ calls[1].h = idle_notifier
              /\ calls[1].a = lastMs
              /\ ret = -2 <=> calls[1].r = NULL
              /\ ret = -2 => Len(calls) = 1

\* register_timeout(0) has returned 0 after passing 0 to the factory, in a
\* behaviour where an earlier register_timeout made an object too.
C12_Witness ==
    /\ lastOp = "register_timeout"
    /\ ret = 0
    /\ lastMs = 0
    /\ calls[1].a = 0
    /\ calls[1].r = notification
    /\ Cardinality(LiveNotifications) = 2

\* C13: during one init() that obtained a registry, whatever sequence of
\* globals is advertised: every bind is made at version 1; exactly one wl_seat
\* is bound when a wl_seat is advertised (none otherwise) and it is the seat
\* stored; one ext_idle_notifier_v1 is bound per advertised notifier global,
\* the last one being stored; no other bind is made.
BindsOf(kind) == {i \in CallsOf("bind") : objs[calls[i].r].kind = kind}
C13_BindsPerInit ==
    (lastOp = "init" /\ advert.reg) =>
        /\ \A i \in CallsOf("bind") : calls[i].a = 1
        /\ Cardinality(BindsOf("wl_seat")) =
              IF InSeq("wl_seat", advert.globals) THEN 1 ELSE 0
        /\ \A i \in BindsOf("wl_seat") : calls[i].r = seat
        /\ Cardinality(BindsOf("ext_idle_notifier_v1")) =
              Count(advert.globals, "ext_idle_notifier_v1")
        /\ \A i \in BindsOf("ext_idle_notifier_v1") :
              (\A j \in BindsOf("ext_idle_notifier_v1") : j <= i) =>
                  calls[i].r = idle_notifier
        /\ CallsOf("bind") = BindsOf("wl_seat") \cup BindsOf("ext_idle_notifier_v1")

\* C14: an init() made while the session is initialized (an init() returned 0
\* and no cleanup() was made since) is refused: it allocates no library object
\* and leaves display, registry, idle_notifier, seat and notification as they
\* were.
C14_ReInitRefused ==
    [][(phase = "ready" /\ lastOp' = "init") =>
          /\ objs' = objs
          /\ UNCHANGED <<display, registry, idle_notifier, seat, notification>>]_vars

\* C15: dispatch() on a connected display always returns: a successful
\* dispatch_pending empties the display's queue, so the retry loop makes at
\* most two prepare_read calls and never runs out of the retries followed
\* (code -9); and when the display has no event queued and none on its
\* socket, dispatch() makes one prepare_read, fires no upstream callback, and
\* returns 0 unless a library call reports an error.
NothingPending ==
    /\ OnDisplay(Cur, display, queue) = <<>>
    /\ OnDisplay(Cur, display, wire) = <<>>
C16_HandlesValid ==
    /\ \A i \in 1..Len(calls) : calls[i].v
    /\ \A i, j \in 1..Len(released) : i # j => released[i] # released[j]
    /\ phase = "ready" =>
          /\ Valid(Cur, seat)
          /\ Valid(Cur, idle_notifier)
          /\ DisplayOf(Cur, seat) = display
          /\ DisplayOf(Cur, idle_notifier) = display

\* C17: a register_timeout call that returns -1 or -2 leaves the session as it
\* was: the notification field and the set of live notification objects are
\* the same after the call as before it.
C17_FailedRegisterLeavesSession ==
    [][(lastOp' = "register_timeout" /\ ret' \in {-1, -2}) =>
          /\ notification' = notification
          /\ LiveNotifications' = LiveNotifications]_vars

\* C18: when dispatch() on a connected display has returned, every
\* prepare_read of it that succeeded (and so registered a read intent) was
\* followed by exactly one read_events or cancel_read: as many intents were
\* given back as were registered, so the library's count of outstanding read
\* intents is where it was before the call, 0.
ReadIntentsTaken == {i \in CallsOf("prepare_read") : calls[i].r = 0}
ReadIntentsGiven == CallsOf("read_events") \cup CallsOf("cancel_read")
C18_ReadIntentsBalanced ==
    (lastOp = "dispatch" /\ Valid(Cur, display)) =>
        Cardinality(ReadIntentsTaken) = Cardinality(ReadIntentsGiven)

====
